---- MODULE Spec2Model ----
(***************************************************************************)
(* GlitchSynthesizer (src/src/App.tsx): the React component's state, its   *)
(* handlers, its two effects, the render loop driven by                    *)
(* requestAnimationFrame, and the MediaRecorder session.                   *)
(*                                                                         *)
(* The component's useState values are the values of the last committed    *)
(* render (what the handlers' closures read).  Updates made inside a DOM   *)
(* event handler (click, change) are rendered and their effects flushed    *)
(* before the handler's task ends, so such a handler is one action.        *)
(* Updates made outside one (the play() promise's then-callback, the       *)
(* recorder's onstop) are queued: qPlaying, qRecording; the action Render  *)
(* commits them and runs the effects.                                      *)
(*                                                                         *)
(* Units: chaos, feedback, invertChance and the random source are in       *)
(* hundredths; scale and zoomGlitch are in tenths.  Sizes are in pixels;   *)
(* a quantity the code computes in floating point is an exact fraction     *)
(* <<numerator, denominator>> here.                                        *)
(*                                                                         *)
(* Specifications: SpecPlayer (playback and the render loop), SpecRecording*)
(* (the recorder), SpecRender (the render loop with the window resized and*)
(* the Ghosting and Global Scale sliders), SpecParams (the nine sliders   *)
(* and the reset), SpecInterleaved (ticks and recording together),        *)
(* SpecSteps (the noise step and one slice attempt as functions of their  *)
(* inputs; a tick's record keeps the number of slices drawn, a slice's    *)
(* rectangles are computed by SliceAttempt).                               *)
(***************************************************************************)
EXTENDS Integers, Sequences, FiniteSets, TLC

VARIABLES
  isPlaying,          \* useState(false), line 6
  videoSrc,           \* useState(''), line 7: 0 is '', n > 0 the n-th object URL
  isRecording,        \* useState(false), line 8
  params,             \* useState({...}), lines 12-22
  animationRef,       \* useRef(null), line 27: 0 is null, else a frame handle
  recorderRef,        \* useRef(null), line 30: 0 is null, else a recorder
  recordedChunksRef,  \* useRef([]), line 31
  pendingFrames,      \* the browser's pending animation-frame callbacks
  ready,              \* video.readyState >= 2
  playPromises,       \* the promises returned by video.play(), not yet settled
  qPlaying,           \* a queued setIsPlaying(true) (line 222), not yet rendered
  qRecording,         \* a queued setIsRecording(false) (line 51), not yet rendered
  recorders,          \* each MediaRecorder's lifecycle
  delivered,          \* per recorder, the sizes of the chunks it has delivered
  artifacts,          \* the downloads triggered by onstop, in order
  mounted,            \* the component is mounted
  canvasSize,         \* <<canvas.width, canvas.height>>, line 563
  containerSize,      \* <<clientWidth, clientHeight>> of the main view, line 548
  probe,              \* one step of the pipeline applied on its own: input, result
  stopped,            \* the render loop was stopped and play was not requested since
  lastTick,           \* what the most recent step did, when it was a renderLoop tick
  lastStop,           \* what the most recent step did, when it was stopRecording
  lastStep            \* the handler or callback that ran last

vars == <<isPlaying, videoSrc, isRecording, params, animationRef, recorderRef,
          recordedChunksRef, pendingFrames, ready, playPromises, qPlaying,
          qRecording, recorders, delivered, artifacts, mounted, canvasSize,
          containerSize, probe, stopped, lastTick, lastStop, lastStep>>

playerVars == <<isPlaying, videoSrc, params, animationRef, pendingFrames, ready,
                playPromises, qPlaying, stopped, canvasSize, containerSize>>

recordingVars == <<isRecording, recorderRef, recordedChunksRef, qRecording,
                   recorders, delivered, artifacts>>

----------------------------------------------------------------------------
\* Bounds of the model.
MaxSources == 2      \* files the user uploads
MaxSessions == 2     \* recorders created
MaxChunks == 2       \* dataavailable events of one recorder before its stop
MaxSlices == 1       \* largest value the Slice Count slider is moved to
MaxHandles == 3      \* animation-frame handles alive at once
Pixels == 2          \* pixels of the surface the noise step is applied to
MaxTicks == 2        \* consecutive decay-only ticks a trail is followed over

\* Program constants.
DefaultThreshold == 200
DefaultBrightness == 100
DefaultChaos == 50
DefaultSlices == 5
DefaultDisplacement == 50
DefaultFeedback == 10
DefaultInvertChance == 10
DefaultScale == 10
DefaultZoomGlitch == 1
One == 100           \* 1.0 in hundredths
NoiseChance == 10    \* 0.1 in hundredths, line 141
ScanlineChance == 30 \* 0.3 in hundredths, line 198
SliceDraws == 10     \* calls of Math.random() in one slice attempt that draws

DefaultParams ==
  [threshold |-> DefaultThreshold, brightness |-> DefaultBrightness,
   chaos |-> DefaultChaos, slices |-> DefaultSlices,
   displacement |-> DefaultDisplacement, feedback |-> DefaultFeedback,
   invertChance |-> DefaultInvertChance, scale |-> DefaultScale,
   zoomGlitch |-> DefaultZoomGlitch]

\* Values of Math.random(), in hundredths: 0 <= r < 1, 0 included.
RandomValues == {0, 50, 99}

\* Values the Chaos Prob. slider (0..1) and the Slice Count slider are moved to.
ChaosValues == {0, 50, One}
SliceValues == 0..MaxSlices

\* Values the other sliders are moved to (lines 530-542 give their ranges).
ThresholdValues == {DefaultThreshold, 500}
BrightnessValues == {DefaultBrightness, 300}
InvertValues == {DefaultInvertChance, One}
DisplacementValues == {DefaultDisplacement, 300}
ZoomValues == {DefaultZoomGlitch, 20}
FeedbackValues == {1, DefaultFeedback, 50, 99}
ScaleValues == {5, DefaultScale, 30}

\* A canvas element without width and height attributes (line 563) is
\* 300 x 150 until the first tick sizes it.
DefaultCanvas == <<300, 150>>

\* Sizes of the main view: as the page opens, and after the window is resized.
InitialContainer == <<8, 6>>
ContainerSizes == {<<8, 6>>, <<6, 8>>, <<3, 3>>}

\* <<videoWidth, videoHeight>> of the n-th uploaded file.
VideoSizeOf(n) == <<<<4, 3>>, <<3, 4>>, <<2, 2>>>>[((n - 1) % 3) + 1]

NoFit == [scale |-> <<0, 1>>, drawW |-> <<0, 1>>, drawH |-> <<0, 1>>,
          offsetX |-> <<0, 1>>, offsetY |-> <<0, 1>>]
NoTick == [branch |-> "none", slices |-> 0, chaos |-> 0, src |-> 0, drawn |-> 0,
           p |-> DefaultParams, w |-> 0, h |-> 0, ops |-> << >>, base |-> NoFit,
           decayTicks |-> 0, retained |-> <<1, 1>>]
NoProbe == [step |-> "none"]

\* Values a pixel holds after the decay fill.
DecayedPixels == {<<0, 0, 0, 255>>, <<26, 26, 26, 255>>, <<100, 100, 100, 255>>}
NoStop == [on |-> 0, active |-> FALSE]

----------------------------------------------------------------------------
\* requestAnimationFrame's return value: a handle no pending callback has.
\* (Handles only ever get compared for equality, so a handle that is not in
\* use, and is not the one animationRef still holds, stands for a new one.)
FreeHandles(frames, ref) ==
  {h \in 1..MaxHandles : h # ref /\ \A f \in frames : f.handle # h}

NewHandle(frames, ref) ==
  CHOOSE h \in FreeHandles(frames, ref) : \A g \in FreeHandles(frames, ref) : h <= g

\* cancelAnimationFrame(animationRef.current)
CancelAnimationFrame(frames, ref) == {f \in frames : f.handle # ref}

\* A callback memoized once, with the parameters of the first render.
RequestAnimationFrameStale(frames, ref, p, src) ==
  frames \cup {[handle |-> NewHandle(frames, ref), p |-> DefaultParams, src |-> src]}

\* requestAnimationFrame(renderLoop), renderLoop being the callback memoized
\* for (params, videoSrc): lines 110, 207.
RequestAnimationFrame(frames, ref, p, src) ==
  frames \cup {[handle |-> NewHandle(frames, ref), p |-> p, src |-> src]}

\* A cleanup that forgets to cancel the pending callback.
EffectCleanupNoCancel(frames, ref) == frames

\* The cleanup of the scheduling effect, line 217.
EffectCleanup(frames, ref) == CancelAnimationFrame(frames, ref)

\* The scheduling effect re-run after a render in which isPlaying or
\* renderLoop changed (lines 211-218): the previous run's cleanup, then the
\* body.  The result is <<pendingFrames, animationRef>>.
SchedulingEffect(frames, ref, playing, p, src) ==
  LET cleaned == EffectCleanup(frames, ref) IN
    IF playing
      THEN <<RequestAnimationFrame(cleaned, ref, p, src), NewHandle(cleaned, ref)>>
      ELSE <<CancelAnimationFrame(cleaned, ref), ref>>

\* video.pause() (line 87) and the media element's load of a new src abort
\* the play promises that are still pending (they reject); one already taken
\* for resolution stays resolved.
AbortPending(promises) ==
  {IF pr.phase = "pending" THEN [pr EXCEPT !.phase = "aborted"] ELSE pr :
     pr \in promises}

\* video.play() (lines 89, 222): a new pending promise.
Play(promises, origin) == promises \cup {[origin |-> origin, phase |-> "pending"]}

----------------------------------------------------------------------------
Init ==
  /\ isPlaying = FALSE
  /\ videoSrc = 0
  /\ isRecording = FALSE
  /\ params = DefaultParams
  /\ animationRef = 0
  /\ recorderRef = 0
  /\ recordedChunksRef = << >>
  /\ pendingFrames = {}
  /\ ready = FALSE
  /\ playPromises = {}
  /\ qPlaying = FALSE
  /\ qRecording = FALSE
  /\ recorders = [r \in 1..MaxSessions |-> "unused"]
  /\ delivered = [r \in 1..MaxSessions |-> << >>]
  /\ artifacts = << >>
  /\ mounted = TRUE
  /\ canvasSize = DefaultCanvas
  /\ containerSize = InitialContainer
  /\ probe = NoProbe
  /\ stopped = TRUE
  /\ lastTick = NoTick
  /\ lastStop = NoStop
  /\ lastStep = "mount"

\* Every step records itself and clears the record of the previous one.
Step(name) ==
  /\ lastStep' = name
  /\ lastTick' = NoTick
  /\ lastStop' = NoStop

----------------------------------------------------------------------------
\* handleFileUpload, lines 75-82, for a chosen file (without one it does
\* nothing), with the render it causes: both effects re-run (videoSrc
\* changed), the second calls video.play() on the new source.
handleFileUpload ==
  /\ mounted
  /\ videoSrc < MaxSources
  /\ LET src == videoSrc + 1
         eff == SchedulingEffect(pendingFrames, animationRef, TRUE, params, src)
     IN /\ videoSrc' = src
        /\ isPlaying' = TRUE
        /\ qPlaying' = FALSE
        /\ pendingFrames' = eff[1]
        /\ animationRef' = eff[2]
        /\ ready' = FALSE
        /\ playPromises' = Play(AbortPending(playPromises), "effect")
  /\ stopped' = FALSE
  /\ Step("handleFileUpload")
  /\ UNCHANGED <<params, mounted>>
  /\ UNCHANGED recordingVars
  /\ UNCHANGED <<canvasSize, containerSize, probe>>

\* togglePlay, lines 84-93, with the render it causes.
togglePlay ==
  /\ mounted
  /\ playPromises' = IF isPlaying THEN AbortPending(playPromises)
                                  ELSE Play(playPromises, "toggle")
  /\ isPlaying' = ~isPlaying
  /\ qPlaying' = FALSE
  /\ LET eff == SchedulingEffect(pendingFrames, animationRef, ~isPlaying, params, videoSrc)
     IN /\ pendingFrames' = eff[1]
        /\ animationRef' = eff[2]
  /\ stopped' = isPlaying
  /\ UNCHANGED <<videoSrc, params, ready, mounted>>
  /\ UNCHANGED recordingVars
  /\ UNCHANGED <<canvasSize, containerSize, probe>>

\* The PLAY button, lines 498-504.
ClickPlay ==
  /\ videoSrc # 0
  /\ ~isPlaying
  /\ togglePlay
  /\ Step("ClickPlay")

\* The PAUSE button, lines 505-511.
ClickPause ==
  /\ videoSrc # 0
  /\ isPlaying
  /\ togglePlay
  /\ Step("ClickPause")

\* A slider's onChange, lines 530-542: setParams(p => ({...p, field: v})), with
\* the render it causes (renderLoop is memoized anew, the scheduling effect
\* re-runs).  The sliders moved here are Chaos Prob. and Slice Count.
SetParams(p) ==
  /\ mounted
  /\ params' = p
  /\ LET eff == SchedulingEffect(pendingFrames, animationRef, isPlaying, p, videoSrc)
     IN /\ pendingFrames' = eff[1]
        /\ animationRef' = eff[2]
  /\ UNCHANGED <<isPlaying, videoSrc, ready, playPromises, qPlaying, stopped, mounted>>
  /\ UNCHANGED recordingVars
  /\ UNCHANGED <<canvasSize, containerSize, probe>>

SliderChaos ==
  /\ \E v \in ChaosValues \ {params.chaos} : SetParams([params EXCEPT !.chaos = v])
  /\ Step("SliderChaos")

SliderSlices ==
  /\ \E v \in SliceValues \ {params.slices} : SetParams([params EXCEPT !.slices = v])
  /\ Step("SliderSlices")

\* The other seven sliders, lines 530-542.
SliderThreshold ==
  /\ \E v \in ThresholdValues \ {params.threshold} :
       SetParams([params EXCEPT !.threshold = v])
  /\ Step("SliderThreshold")

SliderBrightness ==
  /\ \E v \in BrightnessValues \ {params.brightness} :
       SetParams([params EXCEPT !.brightness = v])
  /\ Step("SliderBrightness")

SliderInvert ==
  /\ \E v \in InvertValues \ {params.invertChance} :
       SetParams([params EXCEPT !.invertChance = v])
  /\ Step("SliderInvert")

SliderDisplacement ==
  /\ \E v \in DisplacementValues \ {params.displacement} :
       SetParams([params EXCEPT !.displacement = v])
  /\ Step("SliderDisplacement")

SliderZoom ==
  /\ \E v \in ZoomValues \ {params.zoomGlitch} :
       SetParams([params EXCEPT !.zoomGlitch = v])
  /\ Step("SliderZoom")

SliderFeedback ==
  /\ \E v \in FeedbackValues \ {params.feedback} :
       SetParams([params EXCEPT !.feedback = v])
  /\ Step("SliderFeedback")

SliderScale ==
  /\ \E v \in ScaleValues \ {params.scale} :
       SetParams([params EXCEPT !.scale = v])
  /\ Step("SliderScale")

\* The window is resized: the main view (line 548) takes another size.  No
\* handler of the component runs.
ResizeContainer ==
  /\ mounted
  /\ \E size \in ContainerSizes \ {containerSize} : containerSize' = size
  /\ Step("ResizeContainer")
  /\ UNCHANGED <<isPlaying, videoSrc, params, animationRef, pendingFrames, ready,
                 playPromises, qPlaying, stopped, mounted, canvasSize, probe>>
  /\ UNCHANGED recordingVars

\* A reset literal with one field off.
ResetParamsOff == [DefaultParams EXCEPT !.feedback = 50]

\* The literal resetParams passes to setParams, lines 96-106 (chaos, feedback
\* and invertChance in hundredths, scale and zoomGlitch in tenths).
ResetParams ==
  [threshold |-> 200, brightness |-> 100, chaos |-> 50, slices |-> 5,
   displacement |-> 50, feedback |-> 10, invertChance |-> 10, scale |-> 10,
   zoomGlitch |-> 1]

\* resetParams, lines 95-107.
resetParams ==
  /\ SetParams(ResetParams)
  /\ Step("resetParams")

----------------------------------------------------------------------------
\* The chaos test with the comparison turned around.
SliceDrawnInverted(rnd, chaos) == rnd < One - chaos

\* The chaos test of one slice attempt, line 169.
SliceDrawn(rnd, chaos) == rnd > One - chaos

\* The slices loop, lines 168-204: the number of attempts that draw, rs[i]
\* being the value Math.random() returns for attempt i's chaos test.
SlicesDrawn(rs, p) ==
  Cardinality({i \in 1..p.slices : SliceDrawn(rs[i], p.chaos)})

----------------------------------------------------------------------------
\* Exact fractions <<n, d>>, d > 0, not reduced.
Whole(n) == <<n, 1>>
RatMul(a, b) == <<a[1] * b[1], a[2] * b[2]>>
RatAdd(a, b) == <<a[1] * b[2] + b[1] * a[2], a[2] * b[2]>>
RatSub(a, b) == <<a[1] * b[2] - b[1] * a[2], a[2] * b[2]>>
RatEq(a, b) == a[1] * b[2] = b[1] * a[2]
RatLeq(a, b) == a[1] * b[2] <= b[1] * a[2]
RatLess(a, b) == a[1] * b[2] < b[1] * a[2]

RECURSIVE Pow(_, _)
Pow(b, n) == IF n = 0 THEN 1 ELSE b * Pow(b, n - 1)

----------------------------------------------------------------------------
\* A resize step that leaves the surface as it is.
ResizeCanvasKeep(canvas, container) == canvas

\* Lines 118-125: the surface takes the container's size when they differ.
ResizeCanvas(canvas, container) ==
  IF canvas[1] # container[1] \/ canvas[2] # container[2] THEN container
                                                          ELSE canvas

\* An overlay whose opacity is the feedback itself.
OverlayAlphaFeedback(p) == p.feedback

\* Line 132: the opacity of the black overlay, rgba(0, 0, 0, 1 - feedback).
OverlayAlpha(p) == One - p.feedback

\* Lines 131-133: what fillRect in 'source-over' with the black overlay
\* leaves of a channel value: black * alpha + value * (1 - alpha).
DecayFill(value, p) ==
  <<value[1] * (One - OverlayAlpha(p)), value[2] * One>>

\* The offset that leaves the whole margin on one side.
OffsetOneSided(size, draw) == RatSub(Whole(size), draw)

\* Lines 160-161: (size - draw) / 2.
Offset(size, draw) == RatMul(RatSub(Whole(size), draw), <<1, 2>>)

\* Lines 153-161: the geometry of the base draw on a w x h surface, for a
\* vw x vh frame and params.scale (in tenths).
CoverFit(w, h, vw, vh, scale10) ==
  LET ratioW == <<w, vw>>
      ratioH == <<h, vh>>
      max == IF RatLeq(ratioH, ratioW) THEN ratioW ELSE ratioH
      scale == RatMul(max, <<scale10, 10>>)
      drawW == RatMul(Whole(vw), scale)
      drawH == RatMul(Whole(vh), scale)
  IN [scale |-> scale, drawW |-> drawW, drawH |-> drawH,
      offsetX |-> Offset(w, drawW), offsetY |-> Offset(h, drawH)]

\* The drawing operations: the fill of lines 130-133, putImageData of line
\* 143, the base draw of line 162, a slice's draw of line 195.
Fill == [op |-> "fillRect", mode |-> "source-over", layer |-> "decay"]
Noise == [op |-> "putImageData", mode |-> "none", layer |-> "noise"]
BaseDraw == [op |-> "drawImage", mode |-> "screen", layer |-> "base"]
SliceDraw == [op |-> "drawImage", mode |-> "slice", layer |-> "slice"]

\* The drawing operations of a tick in their order, by the path it takes:
\* lines 130-146 when the frame is not ready, lines 130-133 and 150-204 when
\* it is.  A slice's mode is the one its invert test picks (lines 173-177).
NotReadyOps(src) == IF src = 0 THEN <<Fill, Noise>> ELSE <<Fill>>

\* The base draw placed before the fill.
FrameOpsBaseFirst(drawn) == <<BaseDraw, Fill>> \o [i \in 1..drawn |-> SliceDraw]

FrameOps(drawn) == <<Fill, BaseDraw>> \o [i \in 1..drawn |-> SliceDraw]

\* The callback re-armed without a request.
RearmNothing(frames, ref, p, src) == frames

\* Lines 145 and 206: animationRef.current = requestAnimationFrame(renderLoop).
Rearm(frames, ref, p, src) == RequestAnimationFrame(frames, ref, p, src)

\* One tick of renderLoop, lines 110-207: the pending callback f runs.  It
\* reads params and videoSrc from its closure and readyState from the video
\* element, sizes the surface, and re-arms itself on both of its paths
\* (lines 145, 206).  The tick's record keeps the sizes and the parameters
\* it used, its drawing operations, and how much of the surface's content of
\* decayTicks ticks ago its decay fills have left, while the ticks follow
\* one another and do nothing but decay.
renderLoop(f) ==
  /\ mounted
  /\ f \in pendingFrames
  /\ LET rest == pendingFrames \ {f}
     IN /\ pendingFrames' = Rearm(rest, animationRef, f.p, f.src)
        /\ animationRef' = NewHandle(rest, animationRef)
  /\ canvasSize' = ResizeCanvas(canvasSize, containerSize)
  /\ LET w == canvasSize'[1]
         h == canvasSize'[2]
         resized == canvasSize' # canvasSize
         follow == ~resized /\ lastTick.decayTicks < MaxTicks
         used == [slices |-> f.p.slices, chaos |-> f.p.chaos, src |-> f.src,
                  p |-> f.p, w |-> w, h |-> h]
     IN IF ~ready
          THEN lastTick' =
                 used @@
                 [branch |-> IF f.src = 0 THEN "noise" ELSE "decay",
                  drawn |-> 0, ops |-> NotReadyOps(f.src), base |-> NoFit,
                  decayTicks |-> IF f.src = 0 \/ resized THEN 0
                                 ELSE IF follow THEN lastTick.decayTicks + 1
                                 ELSE 1,
                  retained |-> IF f.src = 0 \/ resized THEN <<1, 1>>
                               ELSE IF follow THEN DecayFill(lastTick.retained, f.p)
                               ELSE DecayFill(<<1, 1>>, f.p)]
          ELSE \E drawn \in {SlicesDrawn(rs, f.p) :
                                rs \in [1..f.p.slices -> RandomValues]} :
                 lastTick' =
                   used @@
                   [branch |-> "frame", drawn |-> drawn, ops |-> FrameOps(drawn),
                    base |-> CoverFit(w, h, VideoSizeOf(videoSrc)[1],
                                      VideoSizeOf(videoSrc)[2], f.p.scale),
                    decayTicks |-> 0, retained |-> <<1, 1>>]
  /\ lastStep' = "renderLoop"
  /\ lastStop' = NoStop
  /\ UNCHANGED <<isPlaying, videoSrc, params, ready, playPromises, qPlaying,
                 stopped, mounted>>
  /\ UNCHANGED recordingVars
  /\ UNCHANGED <<containerSize, probe>>

Tick == \E f \in pendingFrames : renderLoop(f)

----------------------------------------------------------------------------
\* The steps of a tick that draw pixels or pick a slice's rectangles, as
\* functions of what they read: the surface holds Pixels pixels, a pixel is
\* <<red, green, blue, alpha>>.
RECURSIVE Gcd(_, _)
Gcd(a, b) == IF b = 0 THEN a ELSE Gcd(b, a % b)

Reduced(q) ==
  LET g == Gcd(IF q[1] < 0 THEN -q[1] ELSE q[1], q[2])
  IN <<q[1] \div g, q[2] \div g>>

\* ctx.createImageData(w, h), line 138: transparent black throughout.
CreateImageData(n) == [i \in 1..n |-> <<0, 0, 0, 0>>]

\* 0xff1a1a1a stored in the Uint32Array over the image's bytes, line 141.
Gray == <<26, 26, 26, 255>>

\* Lines 138-142: rs[i] is the value Math.random() returns for pixel i.
NoiseImage(n, rs) ==
  [i \in 1..n |-> IF rs[i] < NoiseChance THEN Gray ELSE CreateImageData(n)[i]]

\* ctx.putImageData(idata, 0, 0), line 143, for an image of the surface's
\* size: every pixel of the surface is replaced; the context has no alpha
\* channel (line 116), so it stores the pixel opaque.
PutImageData(surface, idata) ==
  [i \in 1..Len(surface) |-> <<idata[i][1], idata[i][2], idata[i][3], 255>>]

\* The noise step, lines 137-144, on the surface the decay fill has left.
NoiseStep(surface, rs) == PutImageData(surface, NoiseImage(Len(surface), rs))

\* r(min, max), line 166.
R(rnd, min, max) == <<rnd * (max - min) + min * One, One>>

\* A slice size drawn over the whole extent.
SliceSizeFull(rnd, extent) == <<rnd * extent, One>>

\* Lines 183-184: Math.random() * (extent / 2).
SliceSize(rnd, extent) == <<rnd * extent, 2 * One>>

\* Lines 181-182: Math.random() * extent.
SliceOrigin(rnd, extent) == <<rnd * extent, One>>

\* One attempt of the slices loop, lines 169-203, rs being the values
\* Math.random() returns in the order the attempt calls it; fit is the
\* geometry of the tick's base draw.
SliceAttempt(rs, p, vw, vh, fit) ==
  LET sx == SliceOrigin(rs[3], vw)
      sy == SliceOrigin(rs[4], vh)
      sWidth == SliceSize(rs[5], vw)
      sHeight == SliceSize(rs[6], vh)
      scale == Reduced(fit.scale)
      dx == Reduced(RatAdd(Reduced(RatAdd(Reduced(RatMul(sx, scale)),
                                          Reduced(fit.offsetX))),
                           R(rs[7], -p.displacement, p.displacement)))
      dy == Reduced(RatAdd(Reduced(RatAdd(Reduced(RatMul(sy, scale)),
                                          Reduced(fit.offsetY))),
                           R(rs[8], -p.displacement, p.displacement)))
      z == <<10 * One + rs[9] * p.zoomGlitch, 10 * One>>
      dWidth == Reduced(RatMul(Reduced(RatMul(sWidth, scale)), z))
      dHeight == Reduced(RatMul(Reduced(RatMul(sHeight, scale)), z))
  IN IF SliceDrawn(rs[1], p.chaos)
       THEN [drawn |-> TRUE,
             mode |-> IF rs[2] < p.invertChance THEN "difference"
                                                ELSE "source-over",
             sx |-> sx, sy |-> sy, sWidth |-> sWidth, sHeight |-> sHeight,
             dx |-> dx, dy |-> dy, dWidth |-> dWidth, dHeight |-> dHeight,
             stroke |-> rs[10] < ScanlineChance]
       ELSE [drawn |-> FALSE]

\* The noise step applied to a surface.
ProbeNoise ==
  /\ probe = NoProbe
  /\ \E surface \in [1..Pixels -> DecayedPixels], rs \in [1..Pixels -> RandomValues] :
       probe' = [step |-> "noise", surface |-> surface, rs |-> rs,
                 out |-> NoiseStep(surface, rs)]
  /\ Step("ProbeNoise")
  /\ UNCHANGED <<mounted, canvasSize, containerSize>>
  /\ UNCHANGED <<isPlaying, videoSrc, params, animationRef, pendingFrames, ready,
                 playPromises, qPlaying, stopped>>
  /\ UNCHANGED recordingVars

\* One slice attempt on a frame of the n-th file, with the current
\* parameters, on a surface of the container's size.
ProbeSlice ==
  /\ probe = NoProbe
  /\ \E n \in 1..MaxSources, rs \in [1..SliceDraws -> RandomValues] :
       LET vw == VideoSizeOf(n)[1]
           vh == VideoSizeOf(n)[2]
           fit == CoverFit(containerSize[1], containerSize[2], vw, vh, params.scale)
       IN probe' = [step |-> "slice", vw |-> vw, vh |-> vh, rs |-> rs,
                    out |-> SliceAttempt(rs, params, vw, vh, fit)]
  /\ Step("ProbeSlice")
  /\ UNCHANGED <<mounted, canvasSize, containerSize>>
  /\ UNCHANGED <<isPlaying, videoSrc, params, animationRef, pendingFrames, ready,
                 playPromises, qPlaying, stopped>>
  /\ UNCHANGED recordingVars

----------------------------------------------------------------------------
\* The video element decodes the first frame of its source.
VideoLoaded ==
  /\ videoSrc # 0
  /\ ~ready
  /\ ready' = TRUE
  /\ Step("VideoLoaded")
  /\ UNCHANGED <<isPlaying, videoSrc, params, animationRef, pendingFrames,
                 playPromises, qPlaying, stopped, mounted>>
  /\ UNCHANGED recordingVars
  /\ UNCHANGED <<canvasSize, containerSize, probe>>

\* Playback begins: the element takes its pending play promises and queues
\* the task that resolves them.
PlaybackStarts ==
  /\ ready
  /\ \E pr \in playPromises : pr.phase = "pending"
  /\ playPromises' = {IF pr.phase = "pending" THEN [pr EXCEPT !.phase = "resolving"]
                                               ELSE pr : pr \in playPromises}
  /\ Step("PlaybackStarts")
  /\ UNCHANGED <<isPlaying, videoSrc, params, animationRef, pendingFrames, ready,
                 qPlaying, stopped, mounted>>
  /\ UNCHANGED recordingVars
  /\ UNCHANGED <<canvasSize, containerSize, probe>>

\* The platform declines to begin playback (autoplay policy, unsupported
\* source): the pending play promises are rejected.
PlaybackDeclined ==
  /\ \E pr \in playPromises : pr.phase = "pending"
  /\ playPromises' = {IF pr.phase = "pending" THEN [pr EXCEPT !.phase = "declined"]
                                               ELSE pr : pr \in playPromises}
  /\ Step("PlaybackDeclined")
  /\ UNCHANGED <<isPlaying, videoSrc, params, animationRef, pendingFrames, ready,
                 qPlaying, stopped, mounted>>
  /\ UNCHANGED recordingVars
  /\ UNCHANGED <<canvasSize, containerSize, probe>>

\* A play() promise resolves.  Line 222: .then(() => setIsPlaying(true)); the
\* update is queued for the next render unless isPlaying is already true.
\* Line 89 attaches no then-callback.
PlayResolved(pr) ==
  /\ pr \in playPromises
  /\ pr.phase = "resolving"
  /\ playPromises' = playPromises \ {pr}
  /\ qPlaying' = (qPlaying \/ (pr.origin = "effect" /\ mounted /\ ~isPlaying))
  /\ Step("PlayResolved")
  /\ UNCHANGED <<isPlaying, videoSrc, params, animationRef, pendingFrames, ready,
                 stopped, mounted>>
  /\ UNCHANGED recordingVars
  /\ UNCHANGED <<canvasSize, containerSize, probe>>

\* A play() promise rejects, declined by the platform or aborted by a pause
\* or a new source: .catch(e => console.error(e)), lines 89 and 222.
PlayRejected(pr) ==
  /\ pr \in playPromises
  /\ pr.phase \in {"declined", "aborted"}
  /\ playPromises' = playPromises \ {pr}
  /\ Step(IF pr.phase = "declined" THEN "PlayRejected" ELSE "PlayAborted")
  /\ UNCHANGED <<isPlaying, videoSrc, params, animationRef, pendingFrames, ready,
                 qPlaying, stopped, mounted>>
  /\ UNCHANGED recordingVars
  /\ UNCHANGED <<canvasSize, containerSize, probe>>

SettlePlay == \E pr \in playPromises : PlayResolved(pr) \/ PlayRejected(pr)

\* React renders the queued updates and runs the effects whose dependencies
\* changed: the scheduling effect (lines 211-218) when isPlaying changed.
Render ==
  /\ mounted
  /\ qPlaying \/ qRecording
  /\ isPlaying' = (isPlaying \/ qPlaying)
  /\ isRecording' = (isRecording /\ ~qRecording)
  /\ qPlaying' = FALSE
  /\ qRecording' = FALSE
  /\ LET eff == IF isPlaying' # isPlaying
                  THEN SchedulingEffect(pendingFrames, animationRef, isPlaying',
                                        params, videoSrc)
                  ELSE <<pendingFrames, animationRef>>
     IN /\ pendingFrames' = eff[1]
        /\ animationRef' = eff[2]
  /\ Step("Render")
  /\ UNCHANGED <<videoSrc, params, ready, playPromises, stopped, mounted,
                 recorderRef, recordedChunksRef, recorders, delivered, artifacts>>
  /\ UNCHANGED <<canvasSize, containerSize, probe>>

\* The component is torn down: the scheduling effect's cleanup, line 217.
Unmount ==
  /\ mounted
  /\ mounted' = FALSE
  /\ pendingFrames' = EffectCleanup(pendingFrames, animationRef)
  /\ qPlaying' = FALSE
  /\ qRecording' = FALSE
  /\ stopped' = TRUE
  /\ Step("Unmount")
  /\ UNCHANGED <<isPlaying, videoSrc, isRecording, params, animationRef, ready,
                 playPromises, recorderRef, recordedChunksRef, recorders,
                 delivered, artifacts>>
  /\ UNCHANGED <<canvasSize, containerSize, probe>>

----------------------------------------------------------------------------
\* The recorders whose session is open: started, its stop event not yet fired.
Capturing(r) == recorders[r] = "recording"
Finalizing(r) == recorders[r] = "finalizing"
Active(r) == Capturing(r) \/ Finalizing(r)

Created == {r \in 1..MaxSessions : recorders[r] # "unused"}

\* The non-empty chunks among the chunks recorder r delivered, in order; a
\* chunk is named by its recorder and its position among r's deliveries.
ChunksOf(r, sizes) ==
  LET idx == SelectSeq([i \in 1..Len(sizes) |-> i], LAMBDA i : sizes[i] > 0)
  IN [j \in 1..Len(idx) |-> <<r, idx[j]>>]

\* A start that keeps the previous session's buffer.
KeptChunks == recordedChunksRef

\* recordedChunksRef.current = [], line 44.
ClearedChunks == << >>

\* A handler that keeps only the newest chunk.
ondataavailableNewest(chunks, r, k, size) == <<<<r, k>>>>

\* recorder.ondataavailable, lines 46-48: chunk k of recorder r, of the given size.
ondataavailable(chunks, r, k, size) ==
  IF size > 0 THEN Append(chunks, <<r, k>>) ELSE chunks

\* A download whose blob is given the recorder's mimeType (line 41).
DownloadRecorderType(r, chunks) ==
  [session |-> r, chunks |-> chunks, name |-> "glitch_effect.webm",
   type |-> "video/webm; codecs=vp9"]

\* new Blob(recordedChunksRef.current, {type: "video/webm"}) and the download
\* a.download = "glitch_effect.webm", lines 53-58.
Download(r, chunks) ==
  [session |-> r, chunks |-> chunks, name |-> "glitch_effect.webm",
   type |-> "video/webm"]

\* startRecording, lines 34-63, with the render of setIsRecording(true).
\* canvas.captureStream and new MediaRecorder (lines 38-42) may throw: then
\* only the state update of line 35 has happened.
startRecording ==
  /\ mounted
  /\ Cardinality(Created) < MaxSessions
  /\ isRecording' = TRUE
  /\ qRecording' = FALSE
  /\ \E ok \in BOOLEAN :
       IF ok
         THEN LET r == Cardinality(Created) + 1
              IN /\ recordedChunksRef' = ClearedChunks
                 /\ recorders' = [recorders EXCEPT ![r] = "recording"]
                 /\ recorderRef' = r
         ELSE UNCHANGED <<recordedChunksRef, recorders, recorderRef>>
  /\ UNCHANGED <<delivered, artifacts, mounted>>
  /\ UNCHANGED playerVars
  /\ UNCHANGED probe

\* stopRecording, lines 65-69.  MediaRecorder.stop() on a recorder that is
\* recording makes it inactive and queues the task that fires dataavailable
\* and stop; on an inactive recorder it does nothing.
stopRecording ==
  /\ mounted
  /\ IF recorderRef # 0
       THEN /\ lastStop' = [on |-> recorderRef, active |-> Capturing(recorderRef)]
            /\ recorders' = IF Capturing(recorderRef)
                              THEN [recorders EXCEPT ![recorderRef] = "finalizing"]
                              ELSE recorders
       ELSE /\ lastStop' = NoStop
            /\ UNCHANGED recorders
  /\ lastTick' = NoTick
  /\ UNCHANGED <<isRecording, recorderRef, recordedChunksRef, qRecording,
                 delivered, artifacts, mounted>>
  /\ UNCHANGED playerVars
  /\ UNCHANGED probe

\* A Record button that starts a recording whatever isRecording is.
RecordButtonNeverStops == FALSE

\* The Record button's test, line 518.
RecordButtonStops == isRecording

\* The Record button, lines 515-523.
ClickRecord ==
  \/ /\ RecordButtonStops
     /\ stopRecording
     /\ lastStep' = "stopRecording"
  \/ /\ ~RecordButtonStops
     /\ startRecording
     /\ Step("startRecording")

\* The Stop & Download button, line 525.
ClickStopDownload ==
  /\ stopRecording
  /\ lastStep' = "stopRecording"

\* The recorder delivers a chunk while it records: ondataavailable.
DataAvailable(r) ==
  /\ Capturing(r)
  /\ Len(delivered[r]) < MaxChunks
  /\ \E size \in {0, 1} :
       /\ delivered' = [delivered EXCEPT ![r] = Append(@, size)]
       /\ recordedChunksRef' =
            ondataavailable(recordedChunksRef, r, Len(delivered[r]) + 1, size)
  /\ Step("ondataavailable")
  /\ UNCHANGED <<isRecording, recorderRef, qRecording, recorders, artifacts, mounted>>
  /\ UNCHANGED playerVars
  /\ UNCHANGED probe

\* The task queued by stop(): the recorder delivers the data gathered since
\* the last chunk (possibly none) to ondataavailable, then fires stop:
\* recorder.onstop, lines 50-59.
RecorderStopped(r) ==
  /\ Finalizing(r)
  /\ \E size \in {0, 1} :
       LET chunks == ondataavailable(recordedChunksRef, r, Len(delivered[r]) + 1, size)
       IN /\ delivered' = [delivered EXCEPT ![r] = Append(@, size)]
          /\ recordedChunksRef' = chunks
          /\ artifacts' = Append(artifacts, Download(r, chunks))
  /\ recorders' = [recorders EXCEPT ![r] = "inactive"]
  /\ qRecording' = (qRecording \/ (mounted /\ isRecording))
  /\ Step("onstop")
  /\ UNCHANGED <<isRecording, recorderRef, mounted>>
  /\ UNCHANGED playerVars
  /\ UNCHANGED probe

RecorderEvent == \E r \in 1..MaxSessions : DataAvailable(r) \/ RecorderStopped(r)

----------------------------------------------------------------------------
\* The player: the source, the play state, the parameters and the render loop.
NextPlayer ==
  \/ handleFileUpload
  \/ ClickPlay
  \/ ClickPause
  \/ SliderChaos
  \/ SliderSlices
  \/ resetParams
  \/ Tick
  \/ VideoLoaded
  \/ PlaybackStarts
  \/ PlaybackDeclined
  \/ SettlePlay
  \/ Render
  \/ Unmount

\* The recording controls and the recorder's events.
NextRecording ==
  \/ ClickRecord
  \/ ClickStopDownload
  \/ RecorderEvent
  \/ Render
  \/ Unmount

\* The render loop on its own: the user uploads, moves the Ghosting and
\* Global Scale sliders and resizes the window, the video decodes, ticks run.
NextRender ==
  \/ handleFileUpload
  \/ SliderFeedback
  \/ SliderScale
  \/ ResizeContainer
  \/ VideoLoaded
  \/ Tick

\* Rendering and recording together: the user uploads a file and starts and
\* stops recordings while ticks run and the recorder delivers its chunks.
NextInterleaved ==
  \/ handleFileUpload
  \/ VideoLoaded
  \/ Tick
  \/ ClickRecord
  \/ ClickStopDownload
  \/ RecorderEvent
  \/ Render

\* The drawing steps on their own, applied to inputs from bounded sets.
NextSteps ==
  \/ ProbeNoise
  \/ ProbeSlice

\* The parameters on their own: the nine sliders and RESET DEFAULTS.
NextParams ==
  \/ SliderThreshold
  \/ SliderBrightness
  \/ SliderInvert
  \/ SliderChaos
  \/ SliderSlices
  \/ SliderDisplacement
  \/ SliderZoom
  \/ SliderFeedback
  \/ SliderScale
  \/ resetParams

Next == NextPlayer \/ NextRecording \/ NextRender \/ NextParams

Spec == Init /\ [][Next]_vars

\* The player's actions leave recordingVars unchanged and the recording's
\* actions leave playerVars unchanged, so the behaviours of each part alone
\* are the behaviours of Spec restricted to that part's variables.
SpecPlayer == Init /\ [][NextPlayer]_vars

SpecRecording == Init /\ [][NextRecording]_vars
SpecRender == Init /\ [][NextRender]_vars
SpecParams == Init /\ [][NextParams]_vars
SpecSteps == Init /\ [][NextSteps]_vars
SpecInterleaved == Init /\ [][NextInterleaved]_vars

\* What the platform guarantees to run: a pending animation-frame callback,
\* a settled promise's reaction, a scheduled render, a recorder's queued
\* stop task.  Nothing obliges the user to act.
FairSpecPlayer ==
  SpecPlayer /\ WF_vars(Tick) /\ WF_vars(SettlePlay) /\ WF_vars(Render)

FairSpecRender == SpecRender /\ WF_vars(Tick)

FairSpecRecording ==
  SpecRecording /\ WF_vars(Render) /\ WF_vars(\E r \in 1..MaxSessions : RecorderStopped(r))

----------------------------------------------------------------------------
\* C1: once the render loop has been stopped (a pause, or the teardown), no
\* renderLoop tick runs until the user next requests play (PLAY, or an
\* upload).  `stopped` is set by the pause and the teardown and cleared by
\* the user's play requests only.
C1_NoTickWhileStopped == lastStep = "renderLoop" => ~stopped

\* Every artifact holds exactly the non-empty chunks its session's recorder
\* delivered, in delivery order.
ArtifactsExact ==
  \A i \in 1..Len(artifacts) :
    artifacts[i].chunks = ChunksOf(artifacts[i].session, delivered[artifacts[i].session])

\* A step leaves the buffer's contents in place, unless it is startRecording.
BufferOnlyGrows ==
  \/ lastStep' = "startRecording"
  \/ /\ Len(recordedChunksRef') >= Len(recordedChunksRef)
     /\ SubSeq(recordedChunksRef', 1, Len(recordedChunksRef)) = recordedChunksRef

\* C2: every artifact is the concatenation, in delivery order, of exactly the
\* non-empty chunks its own session's recorder delivered (none dropped,
\* duplicated, reordered or taken from an earlier session); and the buffer
\* only ever grows at its end, except when startRecording clears it.
C2_ArtifactIsSessionChunks == []ArtifactsExact /\ [][BufferOnlyGrows]_vars

C2_Witness ==
  /\ Len(artifacts) = 2
  /\ Len(artifacts[1].chunks) >= 1
  /\ Len(artifacts[2].chunks) >= 2
  /\ artifacts[2].session = 2

\* C3: stopRecording while no session is capturing invokes stop on no
\* recorder and leaves isRecording, the buffer and the artifacts unchanged.
C3_StopWhileIdleIsNoOp ==
  [][(lastStep' = "stopRecording" /\ \A r \in 1..MaxSessions : ~Capturing(r))
       => /\ lastStop'.on = 0
          /\ UNCHANGED <<isRecording, recordedChunksRef, artifacts, recorders>>]_vars

AtMostOneActive == Cardinality({r \in 1..MaxSessions : Active(r)}) <= 1

LifecycleStep ==
  \A r \in 1..MaxSessions :
    \/ recorders'[r] = recorders[r]
    \/ /\ recorders[r] = "unused"
       /\ recorders'[r] = "recording"
       /\ \A q \in 1..MaxSessions : ~Active(q)
    \/ /\ recorders[r] = "recording"
       /\ recorders'[r] = "finalizing"
    \/ /\ recorders[r] = "finalizing"
       /\ recorders'[r] = "inactive"

\* C4: a recorder only moves unused -> recording -> finalizing -> inactive,
\* it starts only when no recorder is capturing or finalizing, and at most
\* one recorder is capturing or finalizing at any time.
C4_RecordingLifecycle == []AtMostOneActive /\ [][LifecycleStep]_vars

C4_Witness ==
  /\ recorders[1] = "inactive"
  /\ recorders[2] = "finalizing"
  /\ lastStep = "stopRecording"

ArtifactsOf(r) == {i \in 1..Len(artifacts) : artifacts[i].session = r}

OneArtifact(r) ==
  /\ Cardinality(ArtifactsOf(r)) = 1
  /\ \A i \in ArtifactsOf(r) :
       /\ artifacts[i].name = "glitch_effect.webm"
       /\ artifacts[i].type = "video/webm"

Completed(r) == recorders[r] = "inactive" /\ OneArtifact(r)

\* C5: a session that stopRecording has stopped eventually completes, with
\* exactly one artifact, named glitch_effect.webm and of type video/webm,
\* and isRecording becomes false (while the component is still mounted);
\* every completed session has exactly one such artifact, no other has any.
C5_StopCompletesWithOneArtifact ==
  /\ \A r \in 1..MaxSessions :
       Finalizing(r) ~> (Completed(r) /\ (~isRecording \/ ~mounted))
  /\ [](\A r \in 1..MaxSessions :
          /\ recorders[r] = "inactive" => OneArtifact(r)
          /\ recorders[r] # "inactive" => ArtifactsOf(r) = {})

C5_Witness ==
  /\ Completed(1)
  /\ delivered[1] = <<0>>
  /\ artifacts[1].chunks = << >>
  /\ ~isRecording
  /\ lastStep = "Render"

\* C6: when the platform rejects a play() request, isPlaying is false once
\* the rejection has been handled.
C6_RejectedPlayLeavesNotPlaying == lastStep = "PlayRejected" => ~isPlaying

\* C7: a tick draws at most params.slices slices, and none when chaos = 0 or
\* slices = 0, whatever the random source returns.
C7_SlicesBounded ==
  lastTick.branch # "none" =>
    /\ lastTick.drawn <= lastTick.slices
    /\ (lastTick.chaos = 0 \/ lastTick.slices = 0) => lastTick.drawn = 0

C7_Witness ==
  /\ lastTick.branch = "frame"
  /\ lastTick.chaos = 0
  /\ lastTick.slices = DefaultSlices

\* C8: with chaos = 1 and a ready frame, every one of the params.slices
\* attempts draws, whatever the random source returns, 0 included.
C8_ChaosOneDrawsAll ==
  (lastTick.branch = "frame" /\ lastTick.chaos = One) =>
    lastTick.drawn = lastTick.slices

\* C9: with no source configured, a tick taking the noise branch eventually
\* runs (unless a source gets configured, or the component is torn down,
\* first).
C9_NoSignalNoiseRendered ==
  <>(lastTick.branch = "noise" \/ videoSrc # 0 \/ ~mounted)

\* The noise branch is in fact never taken.
NoiseNeverRendered == lastTick.branch # "noise"

\* C10: at most one animation-frame callback is pending at any time.
C10_AtMostOnePendingFrame == Cardinality(pendingFrames) <= 1

C10_Witness ==
  /\ isPlaying
  /\ videoSrc = MaxSources
  /\ lastStep = "resetParams"
  /\ Cardinality(pendingFrames) = 1

----------------------------------------------------------------------------
\* C11: a tick sizes the surface to the container before it draws: the width
\* and height it uses (for the fill, the cover-fit, the slices) are the
\* container's size as the tick starts, and the surface has that size after.
C11_TickUsesContainerSize ==
  lastStep = "renderLoop" =>
    /\ <<lastTick.w, lastTick.h>> = containerSize
    /\ canvasSize = containerSize
    /\ lastTick.branch = "frame" =>
         lastTick.base = CoverFit(containerSize[1], containerSize[2],
                                  VideoSizeOf(videoSrc)[1], VideoSizeOf(videoSrc)[2],
                                  lastTick.p.scale)

C11_Witness ==
  /\ lastStep = "renderLoop"
  /\ lastTick.branch = "frame"
  /\ containerSize = <<6, 8>>

----------------------------------------------------------------------------
\* C12: after any slider edits RESET DEFAULTS leaves the parameters equal,
\* field by field, to the initial snapshot, and a second reset right after
\* the first changes nothing.
C12_ResetRestoresDefaults ==
  /\ [](lastStep = "resetParams" => params = DefaultParams)
  /\ [][(lastStep = "resetParams" /\ lastStep' = "resetParams") => params' = params]_vars

C12_Witness ==
  /\ lastStep = "resetParams"
  /\ params.threshold = 200 /\ params.brightness = 100 /\ params.chaos = 50
  /\ params.slices = 5 /\ params.displacement = 50 /\ params.feedback = 10
  /\ params.invertChance = 10 /\ params.scale = 10 /\ params.zoomGlitch = 1

----------------------------------------------------------------------------
\* C13: over n consecutive ticks that only decay-fill the surface (a source is
\* set, its frame is not ready), what a pixel held n ticks ago is left in
\* proportion to feedback^n: each fill keeps 1 - (1 - feedback) of it.
C13_TrailDecaysByFeedback ==
  (lastStep = "renderLoop" /\ lastTick.decayTicks > 0) =>
    lastTick.retained = <<Pow(lastTick.p.feedback, lastTick.decayTicks),
                          Pow(One, lastTick.decayTicks)>>

\* C13 as stated: the proportion is (1 - feedback)^n.
C13_TrailDecaysByOneMinusFeedback ==
  (lastStep = "renderLoop" /\ lastTick.decayTicks > 0) =>
    lastTick.retained = <<Pow(One - lastTick.p.feedback, lastTick.decayTicks),
                          Pow(One, lastTick.decayTicks)>>

C13_Witness ==
  /\ lastStep = "renderLoop"
  /\ lastTick.branch = "decay"
  /\ lastTick.decayTicks = MaxTicks
  /\ lastTick.p.feedback = 99

----------------------------------------------------------------------------
\* The base image is centred: the margins on either side of it are equal.
Centred ==
  /\ RatEq(RatAdd(RatAdd(lastTick.base.offsetX, lastTick.base.offsetX),
                  lastTick.base.drawW), Whole(lastTick.w))
  /\ RatEq(RatAdd(RatAdd(lastTick.base.offsetY, lastTick.base.offsetY),
                  lastTick.base.drawH), Whole(lastTick.h))

\* C14: for every frame size, surface size and scale in [0.5, 3], the base
\* image is centred on both axes and is the cover-fit image enlarged by
\* scale: drawW = w * scale or drawH = h * scale (exact cover of an axis at
\* scale 1).
C14_CoverFitTimesScale ==
  (lastStep = "renderLoop" /\ lastTick.branch = "frame") =>
    /\ \/ RatEq(lastTick.base.drawW,
                RatMul(Whole(lastTick.w), <<lastTick.p.scale, 10>>))
       \/ RatEq(lastTick.base.drawH,
                RatMul(Whole(lastTick.h), <<lastTick.p.scale, 10>>))
    /\ Centred

\* C14 as stated: drawW = w or drawH = h, whatever the scale.
C14_CoverFitExact ==
  (lastStep = "renderLoop" /\ lastTick.branch = "frame") =>
    /\ \/ RatEq(lastTick.base.drawW, Whole(lastTick.w))
       \/ RatEq(lastTick.base.drawH, Whole(lastTick.h))
    /\ Centred

C14_Witness ==
  /\ lastStep = "renderLoop"
  /\ lastTick.branch = "frame"
  /\ lastTick.p.scale = 30
  /\ containerSize = <<6, 8>>
  /\ VideoSizeOf(videoSrc) = <<4, 3>>

----------------------------------------------------------------------------
\* C15: while isPlaying stays true and the component is mounted, every tick,
\* on its not-ready path as on its normal one, leaves exactly one next tick
\* pending, a pending tick is always there, and with pending callbacks
\* delivered fairly ticks recur forever.
C15_TicksRecur ==
  /\ [](lastStep = "renderLoop" => Cardinality(pendingFrames) = 1)
  /\ []((isPlaying /\ mounted) => pendingFrames # {})
  /\ (<>[](isPlaying /\ mounted) => []<>(lastStep = "renderLoop"))

C15_Witness ==
  /\ lastStep = "renderLoop"
  /\ lastTick.branch = "decay"
  /\ isPlaying
  /\ Cardinality(pendingFrames) = 1

----------------------------------------------------------------------------
\* C16: in every tick the first drawing operation is the decay fill, drawn
\* in source-over; a tick that finds the frame not ready draws neither the
\* base image nor a slice, whatever chaos and slices are.
C16_FillFirstAndNotReadySkips ==
  lastStep = "renderLoop" =>
    /\ Len(lastTick.ops) >= 1
    /\ lastTick.ops[1].op = "fillRect"
    /\ lastTick.ops[1].layer = "decay"
    /\ lastTick.ops[1].mode = "source-over"
    /\ ~ready => \A i \in 1..Len(lastTick.ops) :
                   lastTick.ops[i].layer \notin {"base", "slice"}

C16_Witness ==
  /\ lastStep = "renderLoop"
  /\ ~ready
  /\ lastTick.p.chaos = One
  /\ lastTick.p.slices = DefaultSlices
  /\ lastTick.ops = <<Fill>>

----------------------------------------------------------------------------
\* C17: every slice drawn has the origin of its source rectangle inside the
\* frame and a size of at most half the frame, 0 <= sx < vw, 0 <= sy < vh,
\* 0 <= sWidth <= vw/2, 0 <= sHeight <= vh/2, whatever the random draws.
C17_SliceOriginInsideFrame ==
  (probe.step = "slice" /\ probe.out.drawn) =>
    /\ RatLeq(Whole(0), probe.out.sx) /\ RatLess(probe.out.sx, Whole(probe.vw))
    /\ RatLeq(Whole(0), probe.out.sy) /\ RatLess(probe.out.sy, Whole(probe.vh))
    /\ RatLeq(Whole(0), probe.out.sWidth)
    /\ RatLeq(probe.out.sWidth, <<probe.vw, 2>>)
    /\ RatLeq(Whole(0), probe.out.sHeight)
    /\ RatLeq(probe.out.sHeight, <<probe.vh, 2>>)

\* C17 as stated: the whole source rectangle is inside the frame,
\* sx + sWidth <= vw and sy + sHeight <= vh.
C17_SliceSourceInsideFrame ==
  (probe.step = "slice" /\ probe.out.drawn) =>
    /\ RatLeq(Whole(0), probe.out.sx)
    /\ RatLeq(Whole(0), probe.out.sy)
    /\ RatLeq(RatAdd(probe.out.sx, probe.out.sWidth), Whole(probe.vw))
    /\ RatLeq(RatAdd(probe.out.sy, probe.out.sHeight), Whole(probe.vh))

C17_Witness ==
  /\ probe.step = "slice"
  /\ probe.out.drawn
  /\ RatLess(Whole(probe.vw), RatAdd(probe.out.sx, probe.out.sWidth))

----------------------------------------------------------------------------
\* C19: a tick reads every parameter from one snapshot, the one its callback
\* was memoized with; after an edit or a reset is committed and the loop
\* re-subscribed, every pending callback holds the new snapshot, so no later
\* tick runs with an older one.
C19_TicksUseCurrentSnapshot ==
  /\ \A f \in pendingFrames : f.p = params
  /\ lastStep = "renderLoop" =>
       /\ lastTick.p = params
       /\ lastTick.slices = lastTick.p.slices
       /\ lastTick.chaos = lastTick.p.chaos

C19_Witness ==
  /\ lastStep = "renderLoop"
  /\ lastTick.p = params
  /\ params.chaos # DefaultChaos
  /\ params.slices # DefaultSlices

----------------------------------------------------------------------------
\* The chunk buffer after the step is the buffer before it, or that with one
\* chunk appended.
OnlyAppends ==
  \/ recordedChunksRef' = recordedChunksRef
  \/ /\ Len(recordedChunksRef') = Len(recordedChunksRef) + 1
     /\ SubSeq(recordedChunksRef', 1, Len(recordedChunksRef)) = recordedChunksRef

\* C20: a chunk delivery (a dataavailable event, the last of them with the
\* recorder's stop) only appends to the chunk buffer and leaves isPlaying,
\* params, the surface and the pending animation frame as they are; a tick
\* leaves the chunk buffer, the recorder reference and isRecording as they
\* are, however ticks and deliveries interleave.
C20_RenderAndRecordingApart ==
  /\ [][lastStep' \in {"ondataavailable", "onstop"} =>
          /\ OnlyAppends
          /\ UNCHANGED <<isPlaying, params, videoSrc, canvasSize, animationRef,
                         pendingFrames>>]_vars
  /\ [][lastStep' = "renderLoop" =>
          UNCHANGED <<recordedChunksRef, recorderRef, isRecording, recorders,
                      delivered, artifacts>>]_vars

C20_Witness ==
  /\ lastStep = "renderLoop"
  /\ lastTick.branch = "frame"
  /\ recorderRef # 0
  /\ Capturing(recorderRef)
  /\ Len(recordedChunksRef) >= 1

----------------------------------------------------------------------------
\* isRecording is set while a session is open (Capturing or Finalizing), or
\* its onstop has run and the render of setIsRecording(false) is due.
FlagHasSession ==
  (isRecording /\ mounted) => ((\E r \in 1..MaxSessions : Active(r)) \/ qRecording)

\* C21: isRecording is true only while a recorder session is Capturing or
\* Finalizing, also when startRecording fails after it has set the flag, and
\* whenever isRecording is true a stop eventually returns it to false.
C21_RecordingFlagHasSession ==
  /\ []FlagHasSession
  /\ (isRecording /\ lastStep = "stopRecording") ~> (~isRecording \/ ~mounted)

====
